---- MODULE Spec2Model ----
(***************************************************************************)
(* Model of the `file` crate (src/src/lib.rs): get, put, get_text,         *)
(* put_text and readlines over a file system, one step per system call.    *)
(* Bytes are integers 0..255, a text (String / &str) is a sequence of      *)
(* Unicode scalar values, and the UTF-8 conversions between the two are    *)
(* computed as the standard library computes them.                         *)
(***************************************************************************)
EXTENDS Integers, Sequences, FiniteSets, TLC

VARIABLES
    fs,      \* the file system: for each path, whether a file exists and its bytes
    op,      \* the operation each caller called last
    pc,      \* where each caller is in its call
    path,    \* the path argument of each caller's call
    handle,  \* the file handle each caller's call holds
    arg,     \* the data argument of a running put / put_text
    data,    \* the bytes a running put writes
    buf,     \* the bytes a running get has read
    lines,   \* the lines a running readlines has collected
    hint,    \* the capacity a running get reserved; -1 when it reserved none
    ret,     \* the value each caller's last call returned
    cur,     \* history: the put that created the file at each path last
    seen,    \* history: what a reader has seen of its file since its open
    cut      \* history: the number of bytes of an earlier put's content that
             \* the caller's last File::create truncated; -1 when none

vars == <<fs, op, pc, path, handle, arg, data, buf, lines, hint, ret, cur, seen, cut>>

(* ------------------------------ bounds --------------------------------- *)

\* Longest byte sequence a caller passes to put / a file initially holds.
MaxLen == 2

\* Longest file content of the line-reading specification SpecLines.
MaxLineLen == 5

\* The callers (threads of the program using the library), each making one
\* call after the other.
Procs == {"c", "r"}

\* The paths the callers use.
Paths == {"p"}

\* Byte values the callers write: "\n", a lone continuation byte 0x80 and
\* the two-byte lead 0xC2 (0xC2 0x80 encodes U+0080).
Bytes == {10, 128, 194}

\* Byte values of the files of SpecLines: "\n", "\r", "a", "b", "c", and
\* 0x80 and 0xC2 as above.
LineBytes == {10, 13, 97, 98, 99, 128, 194}

\* Unicode scalar values of the texts the callers pass to put_text.
Chars == {10, 128}

RECURSIVE SeqsUpTo(_, _)
SeqsUpTo(S, n) ==
    IF n = 0 THEN {<<>>}
    ELSE LET shorter == SeqsUpTo(S, n - 1)
         IN  shorter \cup {Append(s, x) : s \in {t \in shorter : Len(t) = n - 1}, x \in S}

ByteSeqs == SeqsUpTo(Bytes, MaxLen)

(* ------------------------------ UTF-8 ---------------------------------- *)

\* UTF-8 continuation byte 10xxxxxx.
IsCont(b) == b >= 128 /\ b <= 191

\* Number of bytes of the sequence a first byte announces; 0 for a byte that
\* cannot start a sequence (core::str::validations::utf8_char_width).
Utf8Width(b) ==
    IF b < 128 THEN 1
    ELSE IF b >= 194 /\ b <= 223 THEN 2
    ELSE IF b >= 224 /\ b <= 239 THEN 3
    ELSE IF b >= 240 /\ b <= 244 THEN 4
    ELSE 0

\* Whether the second byte is allowed after the given first byte (rejects
\* overlong forms, surrogates and values above U+10FFFF).
SecondOk(first, second) ==
    IF first = 224 THEN second >= 160 /\ second <= 191
    ELSE IF first = 237 THEN second >= 128 /\ second <= 159
    ELSE IF first = 240 THEN second >= 144 /\ second <= 191
    ELSE IF first = 244 THEN second >= 128 /\ second <= 143
    ELSE IsCont(second)

\* The scalar value of one well-formed sequence of w bytes starting at b[i].
Utf8Scalar(b, i, w) ==
    IF w = 1 THEN b[i]
    ELSE IF w = 2 THEN (b[i] - 192) * 64 + (b[i + 1] - 128)
    ELSE IF w = 3 THEN (b[i] - 224) * 4096 + (b[i + 1] - 128) * 64 + (b[i + 2] - 128)
    ELSE (b[i] - 240) * 262144 + (b[i + 1] - 128) * 4096
         + (b[i + 2] - 128) * 64 + (b[i + 3] - 128)

\* String::from_utf8: validate the bytes from position i on and decode them;
\* ok = FALSE stands for Err(FromUtf8Error).
RECURSIVE Utf8From(_, _, _)
Utf8From(b, i, acc) ==
    IF i > Len(b) THEN [ok |-> TRUE, chars |-> acc]
    ELSE LET w == Utf8Width(b[i])
         IN  IF w = 0 \/ i + w - 1 > Len(b) THEN [ok |-> FALSE, chars |-> <<>>]
             ELSE IF w >= 2 /\ ~SecondOk(b[i], b[i + 1]) THEN [ok |-> FALSE, chars |-> <<>>]
             ELSE IF w >= 3 /\ ~IsCont(b[i + 2]) THEN [ok |-> FALSE, chars |-> <<>>]
             ELSE IF w = 4 /\ ~IsCont(b[i + 3]) THEN [ok |-> FALSE, chars |-> <<>>]
             ELSE Utf8From(b, i + w, Append(acc, Utf8Scalar(b, i, w)))

from_utf8(b) == Utf8From(b, 1, <<>>)

\* The UTF-8 encoding of one scalar value (char::encode_utf8).
EncodeChar(c) ==
    IF c < 128 THEN <<c>>
    ELSE IF c < 2048 THEN <<192 + (c \div 64), 128 + (c % 64)>>
    ELSE IF c < 65536 THEN <<224 + (c \div 4096), 128 + ((c \div 64) % 64), 128 + (c % 64)>>
    ELSE <<240 + (c \div 262144), 128 + ((c \div 4096) % 64),
           128 + ((c \div 64) % 64), 128 + (c % 64)>>

\* str::as_bytes: the bytes of a text, its UTF-8 encoding.
RECURSIVE as_bytes(_)
as_bytes(t) == IF t = <<>> THEN <<>> ELSE EncodeChar(Head(t)) \o as_bytes(Tail(t))

\* The texts a caller passes to put_text: their encoding fits in MaxLen bytes.
Texts == {t \in SeqsUpTo(Chars, MaxLen) : Len(as_bytes(t)) <= MaxLen}

(* --------------------------- values and helpers ------------------------ *)

\* A path at which no file exists.
NoFile == [exists |-> FALSE, bytes |-> <<>>]

File(b) == [exists |-> TRUE, bytes |-> b]

\* No open file handle.
Closed == [open |-> FALSE, pos |-> 0]

\* File::open / File::create returning Ok: a handle at offset 0.
Opened == [open |-> TRUE, pos |-> 0]

\* A handle that is leaked (mem::forget, into_raw_fd) instead of dropped.
DropLeak(h) == h

\* std::fs::File is closed when it goes out of scope (Drop), on every return,
\* `?` early return and unwinding panic.
Drop(h) == Closed

NoRet == [kind |-> "None", err |-> "-", val |-> <<>>]
Ok(v) == [kind |-> "Ok", err |-> "-", val |-> v]
Err(e) == [kind |-> "Err", err |-> e, val |-> <<>>]
Panic(e) == [kind |-> "Panic", err |-> e, val |-> <<>>]

\* History of a path: which put created the file there last, and whether that
\* put returned Ok ("full") or is running or failed ("partial"); "none" when
\* the content is not that of one put alone.
NoCur == [state |-> "none", op |-> "-", owner |-> "-", arg |-> <<>>, bytes |-> <<>>]

IsPrefix(s, t) == Len(s) <= Len(t) /\ SubSeq(t, 1, Len(s)) = s

Zeros(n) == [i \in 1..n |-> 0]

\* A write of chunk at offset pos: the bytes at pos+1..pos+Len(chunk) are
\* replaced, and a gap between the end of the file and pos reads as zeros.
WriteAt(content, pos, chunk) ==
    LET padded == IF pos > Len(content) THEN content \o Zeros(pos - Len(content))
                  ELSE content
    IN  SubSeq(padded, 1, pos) \o chunk
        \o SubSeq(padded, pos + Len(chunk) + 1, Len(padded))

\* The reserved capacity taken as a bound on what is read.
ReadableUpToHint(content, pos, hnt) ==
    LET end == IF hnt >= 0 /\ hnt < Len(content) THEN hnt ELSE Len(content)
    IN  IF end > pos THEN end - pos ELSE 0

\* Number of bytes read_to_end can still read from the handle: everything up
\* to end-of-file, whatever capacity was reserved.
Readable(content, pos, hnt) == IF Len(content) > pos THEN Len(content) - pos ELSE 0

\* A file opened with write + create alone keeps its content.
NotTruncated(content) == content

\* File::create opens with write + create + truncate: the content is emptied.
Truncated(content) == <<>>

\* A caller can start a call when it is not inside one.
CanCall(p) == pc[p] \in {"idle", "done"}

\* Caller q has the file at f open for reading.
Reading(q, f) == pc[q] \in {"opened", "reading", "lines"} /\ path[q] = f

\* What a reader has seen of its file since it opened it: the history of the
\* file at the open ("none", "partial", "full"); "mixed" once one put has
\* created the file anew since, with the content that put truncated; "dirty"
\* after more than that.
Seen(state) == [state |-> state, old |-> <<>>]

\* What the readers of f have seen after caller p created (truncated) f.
SeenAfterCreate(p, f) ==
    [q \in Procs |->
        IF q /= p /\ Reading(q, f)
        THEN IF seen[q].state \in {"mixed", "dirty"} THEN Seen("dirty")
             ELSE [state |-> "mixed", old |-> fs[f].bytes]
        ELSE seen[q]]

\* Caller p is the one whose put created the file at f last and still runs.
Owns(p, f) == cur[f].owner = p /\ cur[f].state = "partial"

\* History after caller p wrote to f: a write by the put that created the
\* file last leaves it as it is, a write by an earlier put spoils it.
CurAfterWrite(p, f) == IF Owns(p, f) THEN cur ELSE [cur EXCEPT ![f] = NoCur]

SeenAfterWrite(p, f) ==
    IF Owns(p, f) THEN seen
    ELSE [q \in Procs |-> IF q /= p /\ Reading(q, f) THEN Seen("dirty") ELSE seen[q]]

\* The history of the initial files: each holds what some earlier put wrote.
InitCur(files) ==
    [f \in Paths |->
        IF files[f].exists
        THEN [state |-> "full", op |-> "init", owner |-> "-",
              arg |-> <<>>, bytes |-> files[f].bytes]
        ELSE NoCur]

(* ------------------------------ initial state -------------------------- *)

Idle ==
    /\ op = [p \in Procs |-> "none"]
    /\ pc = [p \in Procs |-> "idle"]
    /\ path \in [Procs -> Paths]
    /\ handle = [p \in Procs |-> Closed]
    /\ arg = [p \in Procs |-> <<>>]
    /\ data = [p \in Procs |-> <<>>]
    /\ buf = [p \in Procs |-> <<>>]
    /\ lines = [p \in Procs |-> <<>>]
    /\ hint = [p \in Procs |-> -1]
    /\ ret = [p \in Procs |-> NoRet]
    /\ seen = [p \in Procs |-> Seen("none")]
    /\ cut = [p \in Procs |-> -1]

Init ==
    /\ fs \in [Paths -> {NoFile} \cup {File(b) : b \in ByteSeqs}]
    /\ cur = InitCur(fs)
    /\ Idle

(* ------------------------------ calls and returns ---------------------- *)

\* Caller p enters operation o on path f.
Call(p, f, o) ==
    /\ CanCall(p)
    /\ op' = [op EXCEPT ![p] = o]
    /\ path' = [path EXCEPT ![p] = f]
    /\ buf' = [buf EXCEPT ![p] = <<>>]
    /\ lines' = [lines EXCEPT ![p] = <<>>]
    /\ hint' = [hint EXCEPT ![p] = -1]

\* Caller p leaves its call with value r: the locals (file, data, buf) go out
\* of scope and the handle is dropped with them.
Return(p, r) ==
    /\ ret' = [ret EXCEPT ![p] = r]
    /\ pc' = [pc EXCEPT ![p] = IF r.kind = "Panic" THEN "panicked" ELSE "done"]
    /\ handle' = [handle EXCEPT ![p] = Drop(@)]
    /\ arg' = [arg EXCEPT ![p] = <<>>]
    /\ data' = [data EXCEPT ![p] = <<>>]
    /\ buf' = [buf EXCEPT ![p] = <<>>]
    /\ lines' = [lines EXCEPT ![p] = <<>>]
    /\ hint' = [hint EXCEPT ![p] = -1]
    /\ seen' = [seen EXCEPT ![p] = Seen(@.state)]

\* An open that creates the file when none exists (OpenOptions::create).
OpenOrCreate(p, f, next) ==
    /\ arg' = [arg EXCEPT ![p] = <<>>]
    /\ data' = [data EXCEPT ![p] = <<>>]
    /\ ret' = [ret EXCEPT ![p] = NoRet]
    /\ pc' = [pc EXCEPT ![p] = next]
    /\ handle' = [handle EXCEPT ![p] = Opened]
    /\ seen' = [seen EXCEPT ![p] = Seen(cur[f].state)]
    /\ fs' = [fs EXCEPT ![f] = File(fs[f].bytes)]
    /\ UNCHANGED <<cur, cut>>

\* File::open(path)? (lines 41 and 78): Err when no file exists or the open
\* is refused, and then the call returns at once; else a handle at offset 0.
Open(p, f, next) ==
    /\ arg' = [arg EXCEPT ![p] = <<>>]
    /\ data' = [data EXCEPT ![p] = <<>>]
    /\ \/ /\ ~fs[f].exists
          /\ ret' = [ret EXCEPT ![p] = Err("NotFound")]
          /\ pc' = [pc EXCEPT ![p] = "done"]
          /\ handle' = [handle EXCEPT ![p] = Closed]
          /\ seen' = [seen EXCEPT ![p] = Seen("none")]
       \/ /\ fs[f].exists
          /\ ret' = [ret EXCEPT ![p] = Err("OpenFailed")]
          /\ pc' = [pc EXCEPT ![p] = "done"]
          /\ handle' = [handle EXCEPT ![p] = Closed]
          /\ seen' = [seen EXCEPT ![p] = Seen("none")]
       \/ /\ fs[f].exists
          /\ ret' = [ret EXCEPT ![p] = NoRet]
          /\ pc' = [pc EXCEPT ![p] = next]
          /\ handle' = [handle EXCEPT ![p] = Opened]
          /\ seen' = [seen EXCEPT ![p] = Seen(cur[f].state)]
    /\ UNCHANGED <<fs, cur, cut>>

(* ------------------------------ get, get_text -------------------------- *)

\* get / get_text, line 41: let mut file = File::open(path)?
GetOpen(p, f, o) ==
    /\ o \in {"get", "get_text"}
    /\ Call(p, f, o)
    /\ Open(p, f, "opened")

\* The sizes a file system reports for a file: the size of a regular file,
\* and any other number for a special file.
Sizes == 0..(MaxLen + 1)

\* get, lines 43-45: if let Ok(meta) = file.metadata() { data.reserve(len) }
GetMetadata(p) ==
    /\ pc[p] = "opened"
    /\ \/ \E len \in Sizes : hint' = [hint EXCEPT ![p] = len]
       \/ hint' = [hint EXCEPT ![p] = -1]
    /\ pc' = [pc EXCEPT ![p] = "reading"]
    /\ UNCHANGED <<fs, op, path, handle, arg, data, buf, lines, ret, cur, seen, cut>>

\* The bytes taken for text without validation (from_utf8_unchecked).
TextResultUnchecked(bytes) == Ok(bytes)

\* get_text, lines 62-65: the value returned once get returned Ok(bytes).
TextResult(bytes) ==
    LET d == from_utf8(bytes)
    IN  IF d.ok THEN Ok(d.chars) ELSE Err("InvalidData")

\* get, lines 46-47: file.read_to_end(&mut data)?; Ok(data), one read per
\* step: some of the readable bytes, end-of-file, or a failure.
GetRead(p) ==
    /\ pc[p] = "reading"
    /\ LET content == fs[path[p]].bytes
           pos == handle[p].pos
           left == Readable(content, pos, hint[p])
       IN  \/ /\ left > 0
              /\ \E n \in 1..left :
                    /\ buf' = [buf EXCEPT ![p] = @ \o SubSeq(content, pos + 1, pos + n)]
                    /\ handle' = [handle EXCEPT ![p].pos = pos + n]
              /\ UNCHANGED <<pc, ret, arg, data, lines, hint>>
              /\ UNCHANGED seen
           \/ /\ left = 0
              /\ Return(p, IF op[p] = "get" THEN Ok(buf[p]) ELSE TextResult(buf[p]))
           \/ Return(p, Err("ReadFailed"))
    /\ UNCHANGED <<fs, op, path, cur, cut>>

(* ------------------------------ put, put_text -------------------------- *)

\* The scalar values of the text written one byte each, not encoded.
PutBytesRaw(o, a) == a

\* put_text, line 72: the bytes handed to put; put, line 55: data.as_ref().
PutBytes(o, a) == IF o = "put_text" THEN as_bytes(a) ELSE a

\* put / put_text, line 54: let mut file = File::create(path)?
PutCreate(p, f, o, a) ==
    /\ \/ o = "put" /\ a \in ByteSeqs
       \/ o = "put_text" /\ a \in Texts
    /\ Call(p, f, o)
    /\ \/ /\ ret' = [ret EXCEPT ![p] = Err("CreateFailed")]
          /\ pc' = [pc EXCEPT ![p] = "done"]
          /\ handle' = [handle EXCEPT ![p] = Closed]
          /\ arg' = [arg EXCEPT ![p] = <<>>]
          /\ data' = [data EXCEPT ![p] = <<>>]
          /\ cut' = [cut EXCEPT ![p] = -1]
          /\ UNCHANGED <<fs, cur, seen>>
       \/ LET c == [state |-> "partial", op |-> o, owner |-> p,
                    arg |-> a, bytes |-> PutBytes(o, a)]
          IN  /\ ret' = [ret EXCEPT ![p] = NoRet]
              /\ pc' = [pc EXCEPT ![p] = "writing"]
              /\ handle' = [handle EXCEPT ![p] = Opened]
              /\ arg' = [arg EXCEPT ![p] = a]
              /\ data' = [data EXCEPT ![p] = PutBytes(o, a)]
              /\ fs' = [fs EXCEPT ![f] = File(Truncated(fs[f].bytes))]
              /\ cur' = [cur EXCEPT ![f] = c]
              /\ seen' = SeenAfterCreate(p, f)
              /\ cut' = [cut EXCEPT ![p] =
                            IF cur[f].state = "full" /\ cur[f].op = "put"
                            THEN Len(fs[f].bytes) ELSE -1]

\* A single write in place of write_all: nothing is left after the first.
RemainingOneWrite(d, pos) == IF pos > 0 THEN 0 ELSE Len(d)

\* Number of bytes write_all still has to write before it returns Ok.
Remaining(d, pos) == Len(d) - pos

\* A write loop that does not advance in its buffer after a short write.
ChunkFromStart(d, pos, n) == SubSeq(d, 1, n)

\* The n bytes write_all hands to the next write: those after the pos bytes
\* already written.
Chunk(d, pos, n) == SubSeq(d, pos + 1, pos + n)

\* put, lines 55-56: file.write_all(data.as_ref())?; Ok(()), one write per
\* step: some of the remaining bytes, or a failure; Ok when none remains.
PutWrite(p) ==
    /\ pc[p] = "writing"
    /\ LET f == path[p]
           pos == handle[p].pos
           left == Remaining(data[p], pos)
       IN  \/ /\ left > 0
              /\ \E n \in 1..left :
                    /\ fs' = [fs EXCEPT ![f] =
                                File(WriteAt(fs[f].bytes, pos, Chunk(data[p], pos, n)))]
                    /\ handle' = [handle EXCEPT ![p].pos = pos + n]
              /\ cur' = CurAfterWrite(p, f)
              /\ seen' = SeenAfterWrite(p, f)
              /\ UNCHANGED <<pc, ret, arg, data, buf, lines, hint>>
           \/ /\ left <= 0
              /\ Return(p, Ok(<<>>))
              /\ cur' = IF Owns(p, f) THEN [cur EXCEPT ![f].state = "full"] ELSE cur
              /\ UNCHANGED fs
           \/ /\ left > 0
              /\ Return(p, Err("WriteFailed"))
              /\ UNCHANGED <<fs, cur>>
    /\ UNCHANGED <<op, path, cut>>

(* ------------------------------ readlines ------------------------------ *)

\* readlines, lines 78-79: let f = File::open(path)?; BufReader::new(f)
ReadlinesOpen(p, f) ==
    /\ Call(p, f, "readlines")
    /\ Open(p, f, "lines")

\* BufRead::read_until(b'\n'): the bytes after offset pos up to and including
\* the first "\n", or up to end-of-file when there is none.
read_until(content, pos) ==
    LET nl == {i \in (pos + 1)..Len(content) : content[i] = 10}
    IN  IF nl = {} THEN SubSeq(content, pos + 1, Len(content))
        ELSE SubSeq(content, pos + 1, CHOOSE i \in nl : \A j \in nl : i <= j)

\* Lines that keep their terminator, as Python's readlines does.
KeepNewline(t) == t

\* Lines::next: a trailing "\n" is removed, and then a trailing "\r".
StripNewline(t) ==
    IF t /= <<>> /\ t[Len(t)] = 10
    THEN LET u == SubSeq(t, 1, Len(t) - 1)
         IN  IF u /= <<>> /\ u[Len(u)] = 13 THEN SubSeq(u, 1, Len(u) - 1) ELSE u
    ELSE t

\* What l.unwrap() makes of the Err(e) of a line (line 80): a panic.
Unwrap(e) == Panic(e)

\* readlines, line 80: Ok(buf.lines().map(|l| l.unwrap()).collect()), one
\* line per step; the iterator ends when read_line reads no byte.
ReadlinesNext(p) ==
    /\ pc[p] = "lines"
    /\ LET content == fs[path[p]].bytes
           pos == handle[p].pos
           raw == read_until(content, pos)
           d == from_utf8(raw)
       IN  \/ /\ raw = <<>>
              /\ Return(p, Ok(lines[p]))
           \/ /\ raw /= <<>>
              /\ d.ok
              /\ lines' = [lines EXCEPT ![p] = Append(@, StripNewline(d.chars))]
              /\ handle' = [handle EXCEPT ![p].pos = pos + Len(raw)]
              /\ UNCHANGED <<pc, ret, arg, data, buf, hint, seen>>
           \/ /\ raw /= <<>>
              /\ ~d.ok
              /\ Return(p, Unwrap("InvalidData"))
           \/ Return(p, Unwrap("ReadFailed"))
    /\ UNCHANGED <<fs, op, path, cur, cut>>

(* ------------------------------ specifications ------------------------- *)

\* One caller making any of the five calls, one after the other.
Next ==
    \E p \in {"c"} :
        \/ \E f \in Paths, o \in {"get", "get_text"} : GetOpen(p, f, o)
        \/ GetMetadata(p)
        \/ GetRead(p)
        \/ \E f \in Paths, o \in {"put", "put_text"}, a \in ByteSeqs \cup Texts :
              PutCreate(p, f, o, a)
        \/ PutWrite(p)
        \/ \E f \in Paths : ReadlinesOpen(p, f)
        \/ ReadlinesNext(p)

Spec == Init /\ [][Next]_vars

\* A caller that puts and a caller that gets, their system calls interleaved.
\* get and put do not look at the bytes, so two byte values are enough here.
ParSeqs == SeqsUpTo({10, 128}, MaxLen)

InitPar ==
    /\ fs \in [Paths -> {NoFile} \cup {File(b) : b \in ParSeqs}]
    /\ cur = InitCur(fs)
    /\ Idle

NextPar ==
    \/ \E f \in Paths, a \in ParSeqs : PutCreate("c", f, "put", a)
    \/ PutWrite("c")
    \/ \E f \in Paths : GetOpen("r", f, "get")
    \/ GetMetadata("r")
    \/ GetRead("r")

SpecPar == InitPar /\ [][NextPar]_vars

\* Line reading alone, on longer files, with "\r" and letters in them.
LineFiles == {NoFile} \cup {File(b) : b \in SeqsUpTo(LineBytes, MaxLineLen)}

InitLines ==
    /\ fs \in [Paths -> LineFiles]
    /\ cur = InitCur(fs)
    /\ Idle

NextLines ==
    \E p \in {"c"} :
        \/ \E f \in Paths : ReadlinesOpen(p, f)
        \/ ReadlinesNext(p)

SpecLines == InitLines /\ [][NextLines]_vars

(* ------------------------------ properties ----------------------------- *)

\* The operations that open a file for reading.
ReadOps == {"get", "get_text", "readlines"}

\* The call returned an I/O error of the operating system for a file that
\* exists: the open was refused or a read failed.
IoFailure(r) == r.kind = "Err" /\ r.err \in {"OpenFailed", "ReadFailed"}

\* Caller p has returned from a call of operation o.
Returned(p, o) == pc[p] = "done" /\ op[p] = o

\* The bytes are the UTF-8 encoding of some text. (Every text whose encoding
\* is made of Bytes is made of Chars.)
WellFormed(b) == \E t \in Texts : as_bytes(t) = b

\* C1. Byte round-trip: once put(P, B) has returned Ok and nothing has
\* written to P since, a get(P) that returns returns Ok with exactly B (the
\* empty B included), unless the operating system fails the open or a read.
ByteRoundTrip ==
    \A p \in Procs :
        (Returned(p, "get") /\ cur[path[p]].state = "full" /\ cur[path[p]].op = "put")
        => \/ ret[p] = Ok(cur[path[p]].arg)
           \/ IoFailure(ret[p])

\* A get has returned the two bytes the put before it wrote.
ByteRoundTripWitness ==
    \E p \in Procs :
        /\ Returned(p, "get") /\ cur[path[p]].state = "full" /\ cur[path[p]].op = "put"
        /\ ret[p] = Ok(cur[path[p]].arg)
        /\ Len(ret[p].val) >= 2

\* C2. Invalid encoding: when the file holds bytes that are not the UTF-8
\* encoding of a text, get_text returns Err of kind InvalidData (never Ok,
\* never a panic); when it holds the encoding of a text, get_text returns Ok
\* with that text; the only other outcome is the I/O error of the get inside.
InvalidEncoding ==
    \A p \in Procs :
        (Returned(p, "get_text") /\ cur[path[p]].state = "full")
        => \/ IoFailure(ret[p])
           \/ /\ WellFormed(fs[path[p]].bytes)
              /\ ret[p].kind = "Ok"
              /\ as_bytes(ret[p].val) = fs[path[p]].bytes
           \/ /\ ~WellFormed(fs[path[p]].bytes)
              /\ ret[p] = Err("InvalidData")

\* get_text has returned InvalidData for the single byte 0x80 written by put.
InvalidEncodingWitness ==
    \E p \in Procs :
        /\ Returned(p, "get_text")
        /\ cur[path[p]].state = "full" /\ cur[path[p]].op = "put"
        /\ cur[path[p]].arg = <<128>>
        /\ fs[path[p]].bytes = <<128>>
        /\ ret[p] = Err("InvalidData")

\* C3. Overwrite: a put(P, B2) that returns Ok on a file holding the B1 of
\* an earlier put leaves exactly B2 as the content of P, whatever the lengths
\* of B1 and B2, and a get(P) that follows returns B2.
Overwrite ==
    \A p \in Procs :
        LET f == path[p]
        IN  (/\ pc[p] = "done" /\ op[p] \in {"put", "get"}
             /\ cut[p] >= 0
             /\ cur[f].state = "full" /\ cur[f].op = "put")
            => /\ fs[f] = File(cur[f].arg)
               /\ op[p] = "get" => (ret[p] = Ok(cur[f].arg) \/ IoFailure(ret[p]))

\* A get has returned a B2 that is shorter than the B1 it replaced.
OverwriteWitness ==
    \E p \in Procs :
        /\ Returned(p, "get")
        /\ cut[p] >= 0
        /\ cur[path[p]].state = "full" /\ cur[path[p]].op = "put"
        /\ cut[p] > Len(cur[path[p]].arg)
        /\ Len(cur[path[p]].arg) > 0
        /\ ret[p] = Ok(cur[path[p]].arg)

\* The offsets of the "\n" bytes of a content.
Newlines(c) == {i \in 1..Len(c) : c[i] = 10}

\* The number of lines of a content: one per "\n", and one more for bytes
\* after the last "\n".
LineCount(c) ==
    Cardinality(Newlines(c)) + (IF c /= <<>> /\ c[Len(c)] /= 10 THEN 1 ELSE 0)

\* The offset of the k-th "\n" of a content; 0 for k = 0 and one past the end
\* when there are fewer than k.
NewlineAt(c, k) ==
    IF k = 0 THEN 0
    ELSE IF k > Cardinality(Newlines(c)) THEN Len(c) + 1
    ELSE CHOOSE i \in Newlines(c) : Cardinality({j \in Newlines(c) : j <= i}) = k

\* The bytes of the k-th line of a content without its terminator "\n" or
\* "\r\n".
LineOf(c, k) ==
    LET first == NewlineAt(c, k - 1) + 1
        last == NewlineAt(c, k) - 1
        cr == last < Len(c) /\ last >= first /\ c[last] = 13
    IN  SubSeq(c, first, IF cr THEN last - 1 ELSE last)

\* C4. Line reading: when readlines returns Ok, the value holds the lines of
\* the file in file order, one entry per line, each without its terminator,
\* and no empty entry for a final newline; "a\nb\nc" yields ["a","b","c"],
\* "a\nb\n" yields ["a","b"] and an empty file yields the empty sequence.
\* On a file whose content is valid UTF-8 no line is rejected as invalid.
LineReading ==
    \A p \in Procs :
        /\ (op[p] = "readlines" /\ ret[p] = Panic("InvalidData"))
           => ~from_utf8(fs[path[p]].bytes).ok
        /\ (Returned(p, "readlines") /\ ret[p].kind = "Ok")
           => LET c == fs[path[p]].bytes
                  v == ret[p].val
              IN  /\ Len(v) = LineCount(c)
                  /\ \A k \in 1..Len(v) : as_bytes(v[k]) = LineOf(c, k)
                  /\ \A k \in 1..Len(v) : \A i \in 1..Len(v[k]) : v[k][i] /= 10
                  /\ c = <<>> => v = <<>>
                  /\ c = <<97, 10, 98, 10>> => v = << <<97>>, <<98>> >>
                  /\ c = <<97, 10, 98, 10, 99>> => v = << <<97>>, <<98>>, <<99>> >>

\* readlines has returned ["a","b"] for the content "a\nb\n".
LineReadingWitness ==
    \E p \in Procs :
        /\ Returned(p, "readlines")
        /\ fs[path[p]].bytes = <<97, 10, 98, 10>>
        /\ ret[p] = Ok(<< <<97>>, <<98>> >>)

\* C5. Failure reporting of readlines: readlines ends in a panic only for a
\* line that is not valid UTF-8; every I/O failure is returned as Err.
ReadlinesFailures ==
    \A p \in Procs :
        (op[p] = "readlines" /\ ret[p].kind = "Panic") => ret[p].err = "InvalidData"

\* C6. Missing file: a get, get_text or readlines called on a path at which
\* no file exists returns Err (not found) at once: it does not crash, opens
\* no handle, attempts no read and leaves the file system as it was.
MissingFile ==
    [][\A p \in Procs :
          (CanCall(p) /\ op'[p] \in ReadOps /\ ~fs[path'[p]].exists)
          => /\ ret'[p] = Err("NotFound")
             /\ pc'[p] = "done"
             /\ ~handle'[p].open
             /\ fs' = fs]_vars

\* readlines has returned not found and there is still no file at the path.
MissingFileWitness ==
    \E p \in Procs :
        /\ Returned(p, "readlines")
        /\ ret[p] = Err("NotFound")
        /\ ~fs[path[p]].exists

\* C7. Text round-trip: after put_text(P, T) has returned Ok, the content of
\* P is the UTF-8 encoding of T, what put(P, bytes of T) leaves, and decodes
\* to T; a get_text(P) that follows with no write in between returns Ok with
\* exactly T, unless the operating system fails the open or a read.
TextRoundTrip ==
    \A f \in Paths :
        (cur[f].state = "full" /\ cur[f].op = "put_text")
        => /\ fs[f].exists
           /\ from_utf8(fs[f].bytes) = [ok |-> TRUE, chars |-> cur[f].arg]
           /\ \A p \in Procs :
                (Returned(p, "get_text") /\ path[p] = f)
                => (ret[p] = Ok(cur[f].arg) \/ IoFailure(ret[p]))

\* get_text has returned the text U+0080 that put_text wrote as 0xC2 0x80.
TextRoundTripWitness ==
    \E p \in Procs :
        /\ Returned(p, "get_text")
        /\ cur[path[p]].state = "full" /\ cur[path[p]].op = "put_text"
        /\ cur[path[p]].arg = <<128>>
        /\ fs[path[p]].bytes = <<194, 128>>
        /\ ret[p] = Ok(<<128>>)

\* C8. Scoped handle release: a caller that is not inside a call holds no
\* open handle, whichever way its calls ended (Ok, Err of an open or create,
\* Err of a read or write, the invalid UTF-8 paths).
HandlesReleased ==
    \A p \in Procs : pc[p] \in {"idle", "done", "panicked"} => ~handle[p].open

\* A get has ended with the Err of a failed read, after its open succeeded.
HandlesReleasedWitness ==
    \E p \in Procs :
        /\ Returned(p, "get")
        /\ ret[p] = Err("ReadFailed")
        /\ ~handle[p].open

\* C9. Capacity hint: whatever size the metadata reported, and also when the
\* metadata query failed, the bytes get has read are those of the file up to
\* its offset, and get returns the whole content, no less and no more; its
\* only errors are those of the open and of the reads.
CapacityHint ==
    \A p \in Procs :
        /\ (pc[p] = "reading" /\ op[p] = "get")
           => /\ buf[p] = SubSeq(fs[path[p]].bytes, 1, handle[p].pos)
              /\ ret[p] = NoRet
        /\ (Returned(p, "get") /\ fs[path[p]].exists)
           => (ret[p] = Ok(fs[path[p]].bytes) \/ IoFailure(ret[p]))

\* A get has read more bytes than the size the metadata reported.
CapacityHintWitness ==
    \E p \in Procs :
        /\ pc[p] = "reading" /\ op[p] = "get"
        /\ hint[p] >= 0
        /\ Len(buf[p]) > hint[p]

\* While a put runs and after it has ended, with no other writer, the file
\* holds a prefix of the put's bytes: exactly those written so far.
PrefixContent ==
    /\ \A f \in Paths :
          cur[f].state \in {"partial", "full"}
          => (fs[f].exists /\ IsPrefix(fs[f].bytes, cur[f].bytes))
    /\ \A p \in Procs :
          (pc[p] = "writing" /\ Owns(p, path[p]))
          => fs[path[p]].bytes = SubSeq(data[p], 1, handle[p].pos)

\* A put whose File::create fails leaves every file as it was.
CreateFailureKeeps ==
    \A p \in Procs : (CanCall(p) /\ ret'[p] = Err("CreateFailed")) => fs' = fs

\* Caller p returns Ok from a get in this step.
GetReturnsOk(p) == pc[p] = "reading" /\ pc'[p] = "done" /\ ret'[p].kind = "Ok"

\* A get that opened the file after the put that created it last, and returns
\* before a later put creates the file again, returns a prefix of the bytes of
\* that put.
GetAfterCreation ==
    \A p \in Procs :
        (GetReturnsOk(p) /\ seen[p].state \in {"partial", "full"})
        => IsPrefix(ret'[p].val, cur[path[p]].bytes)

\* A get that had opened the file before a put created it anew returns bytes
\* of the earlier content alone or bytes of the put alone, never bytes of the
\* one followed by bytes of the other.
GetAcrossCreation ==
    \A p \in Procs :
        (GetReturnsOk(p) /\ seen[p].state = "mixed")
        => \/ IsPrefix(ret'[p].val, seen[p].old)
           \/ IsPrefix(ret'[p].val, cur[path[p]].bytes)

\* C10 as stated. Non-atomic write: during and after put(P, B), with no other
\* writer, P holds its earlier content (before the creation, and for good
\* when the creation fails) or a prefix of B, and a get interleaved with the
\* put returns a prefix of B, never a mix of earlier bytes and bytes of B.
NonAtomicWrite ==
    /\ []PrefixContent
    /\ [][CreateFailureKeeps]_vars
    /\ [][GetAfterCreation]_vars
    /\ [][GetAcrossCreation]_vars

\* C10 as amended. The same, but only for a get that opens P after the put
\* created it: that get returns a prefix of B. (A get that opened P before
\* the creation can return earlier bytes followed by bytes of B.)
NonAtomicWriteFromCreation ==
    /\ []PrefixContent
    /\ [][CreateFailureKeeps]_vars
    /\ [][GetAfterCreation]_vars

\* A get that opened the file during a put has returned the first byte of B
\* while the put is still writing the second.
NonAtomicWriteWitness ==
    \E p, q \in Procs :
        /\ pc[p] = "writing" /\ Owns(p, path[p])
        /\ handle[p].pos = 1 /\ Len(data[p]) = 2
        /\ Returned(q, "get") /\ path[q] = path[p]
        /\ seen[q].state = "partial"
        /\ ret[q] = Ok(SubSeq(data[p], 1, 1))

====
